---- MODULE Spec2Model ----
(***************************************************************************)
(* Location extraction engine of openguessr_enhanced_2026.user.js:         *)
(* the pattern matchers, the passive iframe scanner, the fetch / XHR       *)
(* interceptors, the mutation watcher and the current-location cache.      *)
(*                                                                         *)
(* Text is a sequence of one-character strings.  A JavaScript number is    *)
(* either NaN or Num(v), where v is the value in units of 10^-FracDigits.  *)
(* The alphabet of the texts used here is digits, '.', '-', ',', blanks,   *)
(* '!', '/', and letters other than those of an exponent or "Infinity"; on *)
(* that alphabet ParseFloat below is JavaScript's parseFloat.              *)
(***************************************************************************)
EXTENDS Integers, Sequences, FiniteSets, TLC

(***************************************************************************)
(* Bounds of the model.                                                    *)
(***************************************************************************)
FracDigits == 4      \* fractional decimal digits a number keeps
MaxIframes == 2      \* map iframes attached to the document at a time
MaxRequests == 1     \* intercepted requests in flight at a time
MaxEarlyCalls == 1   \* calls of App.initialize before the body exists
MAX_HISTORY == 2     \* CONFIG.MAX_HISTORY (50 in the script), scaled down
MaxClock == 2        \* milliseconds that pass on the clock of Date.now()
MaxTimers == 3       \* timers of the window pending at a time

Scale == 10 ^ FracDigits

(***************************************************************************)
(* Numbers.                                                                *)
(***************************************************************************)
NaN == [t |-> "NaN"]
Num(v) == [t |-> "num", v |-> v]
IsNaN(n) == n.t = "NaN"
\* JavaScript's n >= k and n <= k for an integer k: false for NaN.
Geq(n, k) == n.t = "num" /\ n.v >= k * Scale
Leq(n, k) == n.t = "num" /\ n.v <= k * Scale

(***************************************************************************)
(* Characters and text.                                                    *)
(***************************************************************************)
Digits == {"0", "1", "2", "3", "4", "5", "6", "7", "8", "9"}
IsDigit(c) == c \in Digits
IsSpace(c) == c \in {" ", "\t", "\n"}
DigitVal(c) ==
    CASE c = "0" -> 0 [] c = "1" -> 1 [] c = "2" -> 2 [] c = "3" -> 3
      [] c = "4" -> 4 [] c = "5" -> 5 [] c = "6" -> 6 [] c = "7" -> 7
      [] c = "8" -> 8 [] c = "9" -> 9

\* s.substring(i-1, j-1): the characters at positions i .. j-1.
Sub(s, i, j) == IF j <= i THEN << >> ELSE SubSeq(s, i, j - 1)

\* Whether text lit occurs in s at position i.
LitAt(s, i, lit) ==
    /\ i >= 1
    /\ i + Len(lit) - 1 <= Len(s)
    /\ \A k \in 1..Len(lit) : s[i + k - 1] = lit[k]

\* String.prototype.includes
Includes(s, lit) == \E i \in 1..(Len(s) + 1) : LitAt(s, i, lit)

\* The position just after the longest run of digits that starts at i.
RECURSIVE DigitRunEnd(_, _)
DigitRunEnd(s, i) ==
    IF i <= Len(s) /\ IsDigit(s[i]) THEN DigitRunEnd(s, i + 1) ELSE i

\* The position just after the longest run of [\d.] that starts at i.
RECURSIVE DotDigitRunEnd(_, _)
DotDigitRunEnd(s, i) ==
    IF i <= Len(s) /\ (IsDigit(s[i]) \/ s[i] = ".")
    THEN DotDigitRunEnd(s, i + 1) ELSE i

\* The position just after the longest run of white space that starts at i.
RECURSIVE SpaceRunEnd(_, _)
SpaceRunEnd(s, i) ==
    IF i <= Len(s) /\ IsSpace(s[i]) THEN SpaceRunEnd(s, i + 1) ELSE i

\* The position of the last character that is not white space (0 if none).
RECURSIVE LastNonSpace(_, _)
LastNonSpace(s, j) ==
    IF j >= 1 /\ IsSpace(s[j]) THEN LastNonSpace(s, j - 1) ELSE j

\* String.prototype.trim
Trim(s) == Sub(s, SpaceRunEnd(s, 1), LastNonSpace(s, Len(s)) + 1)

\* The value of the digits at positions i .. j-1.
RECURSIVE DigitsValue(_, _, _)
DigitsValue(s, i, j) ==
    IF j <= i THEN 0 ELSE DigitsValue(s, i, j - 1) * 10 + DigitVal(s[j - 1])

\* The value, in units of 10^-FracDigits, of the fraction digits at
\* positions i .. j-1 (digits after the FracDigits-th are dropped).
RECURSIVE FractionValue(_, _, _, _)
FractionValue(s, i, j, k) ==
    IF k > FracDigits THEN 0
    ELSE (IF i < j THEN DigitVal(s[i]) * 10 ^ (FracDigits - k) ELSE 0)
         + FractionValue(s, i + 1, j, k + 1)

\* The position after an optional '-' at position i.
OptMinus(s, i) == IF i <= Len(s) /\ s[i] = "-" THEN i + 1 ELSE i

\* parseFloat: skips leading white space, reads the longest prefix that is a
\* decimal literal (sign, digits, optional '.' and digits; or '.' and digits)
\* and ignores what follows; NaN when there is no such prefix.  The steps
\* hand on the positions found: b the first character, i the first digit,
\* ie the end of the integer digits, fe the end of the fraction digits.
ParseFloatValue(s, b, i, ie, fe) ==
    IF ie = i /\ fe <= ie + 1 THEN NaN
    ELSE Num((IF i > b THEN -1 ELSE 1)
             * (DigitsValue(s, i, ie) * Scale + FractionValue(s, ie + 1, fe, 1)))

ParseFloatFraction(s, b, i, ie) ==
    ParseFloatValue(s, b, i, ie,
                    IF ie <= Len(s) /\ s[ie] = "."
                    THEN DigitRunEnd(s, ie + 1) ELSE ie)

ParseFloatDigits(s, b, i) == ParseFloatFraction(s, b, i, DigitRunEnd(s, i))

ParseFloatSign(s, b) == ParseFloatDigits(s, b, OptMinus(s, b))

ParseFloat(s) == ParseFloatSign(s, SpaceRunEnd(s, 1))

\* String.prototype.split(','): the parts of s from position i on.
RECURSIVE SplitFrom(_, _, _)
SplitFrom(s, i, start) ==
    IF i > Len(s) THEN << Sub(s, start, i) >>
    ELSE IF s[i] = "," THEN << Sub(s, start, i) >> \o SplitFrom(s, i + 1, i + 1)
    ELSE SplitFrom(s, i + 1, start)

SplitComma(s) == SplitFrom(s, 1, 1)

\* Number to text, as a template literal does it: the shortest decimal
\* text of the value v (in units of 10^-FracDigits), without a '.' when the
\* value is an integer.
DigitChar(d) ==
    CASE d = 0 -> "0" [] d = 1 -> "1" [] d = 2 -> "2" [] d = 3 -> "3"
      [] d = 4 -> "4" [] d = 5 -> "5" [] d = 6 -> "6" [] d = 7 -> "7"
      [] d = 8 -> "8" [] d = 9 -> "9"

RECURSIVE NatText(_)
NatText(n) ==
    IF n < 10 THEN << DigitChar(n) >>
    ELSE NatText(n \div 10) \o << DigitChar(n % 10) >>

\* The k fraction digits of f, trailing zeros dropped.
RECURSIVE FracText(_, _)
FracText(f, k) ==
    IF f = 0 THEN << >>
    ELSE << DigitChar(f \div 10 ^ (k - 1)) >>
         \o FracText(f % 10 ^ (k - 1), k - 1)

AbsText(a) ==
    NatText(a \div Scale)
        \o (IF a % Scale = 0 THEN << >>
            ELSE << "." >> \o FracText(a % Scale, FracDigits))

NumberText(v) == IF v < 0 THEN << "-" >> \o AbsText(-v) ELSE AbsText(v)

(***************************************************************************)
(* Pattern matchers.                                                       *)
(***************************************************************************)
Null == [null |-> TRUE]

\* The test and the result of parseCoordinates, for the parsed parts.
CoordsOfParts(parts) ==
    IF Len(parts) = 2 /\ ~IsNaN(parts[1]) /\ ~IsNaN(parts[2])
    THEN [lat |-> parts[1], lng |-> parts[2]]
    ELSE Null

\* coordString.split(',').map(s => parseFloat(s.trim()))
ParsedParts(raw) == [k \in 1..Len(raw) |-> ParseFloat(Trim(raw[k]))]

\* Utils.parseCoordinates
parseCoordinates(coordString) ==
    IF coordString = << >> THEN Null
    ELSE CoordsOfParts(ParsedParts(SplitComma(coordString)))

\* { ...coords, source }
WithSource(coords, source) ==
    [lat |-> coords.lat, lng |-> coords.lng, source |-> source]

\* One attempt of /!3d(-?[\d.]+)!4d(-?[\d.]+)/ at position i: the two groups,
\* or << >>.  A greedy [\d.]+ takes the whole run: giving characters back
\* never helps, as the next character wanted ('!') is not in the class.
\* a and b are where the groups start, ae and be where their runs end.
StructuredSecond(s, a, ae, b, be) ==
    IF be = OptMinus(s, b) THEN << >>
    ELSE << Sub(s, a, ae), Sub(s, b, be) >>

StructuredFirst(s, a, ae) ==
    IF ae = OptMinus(s, a) \/ ~LitAt(s, ae, <<"!", "4", "d">>) THEN << >>
    ELSE StructuredSecond(s, a, ae, ae + 3,
                          DotDigitRunEnd(s, OptMinus(s, ae + 3)))

StructuredAt(s, i) ==
    IF ~LitAt(s, i, <<"!", "3", "d">>) THEN << >>
    ELSE StructuredFirst(s, i + 3, DotDigitRunEnd(s, OptMinus(s, i + 3)))

\* pb.match(/!3d(-?[\d.]+)!4d(-?[\d.]+)/): the groups of the leftmost match.
RECURSIVE StructuredFrom(_, _)
StructuredOr(s, i, groups) ==
    IF groups # << >> THEN groups ELSE StructuredFrom(s, i + 1)

StructuredFrom(s, i) ==
    IF i > Len(s) THEN << >> ELSE StructuredOr(s, i, StructuredAt(s, i))

StructuredMatch(pb) == StructuredFrom(pb, 1)

\* One attempt of [-]?\d+\.\d+ at position i: the position after it, or 0.
\* i1 is the first digit, ie the '.', fe the end of the fraction digits.
DecimalFraction(ie, fe) == IF fe > ie + 1 THEN fe ELSE 0

DecimalDigits(s, i1, ie) ==
    IF ie > i1 /\ ie <= Len(s) /\ s[ie] = "."
    THEN DecimalFraction(ie, DigitRunEnd(s, ie + 1)) ELSE 0

DecimalEnd(s, i) == DecimalDigits(s, OptMinus(s, i), DigitRunEnd(s, OptMinus(s, i)))

\* One attempt of /[-]?\d+\.\d+,\s*[-]?\d+\.\d+/ at position i: the position
\* after the match, or 0.  e1 is the end of the first number.
PairSecond(s, e1) ==
    IF e1 = 0 \/ e1 > Len(s) \/ s[e1] # "," THEN 0
    ELSE DecimalEnd(s, SpaceRunEnd(s, e1 + 1))

PairEnd(s, i) == PairSecond(s, DecimalEnd(s, i))

\* text.match(/.../g): every match, left to right, each search starting
\* where the previous match ended; << >> stands for null.
RECURSIVE PairMatchesFrom(_, _)
PairMatchesOr(s, i, e) ==
    IF e # 0 THEN << Sub(s, i, e) >> \o PairMatchesFrom(s, e)
    ELSE PairMatchesFrom(s, i + 1)

PairMatchesFrom(s, i) ==
    IF i > Len(s) THEN << >> ELSE PairMatchesOr(s, i, PairEnd(s, i))

PairMatches(text) == PairMatchesFrom(text, 1)

(***************************************************************************)
(* Inputs: the texts the page and the network supply.                      *)
(***************************************************************************)
\* PbParis is the text !3d48.8566!4d2.3522
PbParis ==
    <<"!", "3", "d", "4", "8", ".", "8", "5", "6", "6", "!", "4", "d", "2",
      ".", "3", "5", "2", "2">>
\* PbNoMatch is the text !1m3
PbNoMatch ==
    <<"!", "1", "m", "3">>
\* PbDot is the text !3d.!4d5.5
PbDot ==
    <<"!", "3", "d", ".", "!", "4", "d", "5", ".", "5">>
\* LocPhilly is the text 40.5,-75.5
LocPhilly ==
    <<"4", "0", ".", "5", ",", "-", "7", "5", ".", "5">>

\* LocMalformed is the text 40.5;x
LocMalformed ==
    <<"4", "0", ".", "5", ";", "x">>

\* UrlMaps is the text /api/maps
UrlMaps ==
    <<"/", "a", "p", "i", "/", "m", "a", "p", "s">>
\* UrlCoordinates is the text /v1/coordinates
UrlCoordinates ==
    <<"/", "v", "1", "/", "c", "o", "o", "r", "d", "i", "n", "a", "t", "e",
      "s">>
\* UrlOther is the text /app.js
UrlOther ==
    <<"/", "a", "p", "p", ".", "j", "s">>

\* BodyValid is the text x,37.422,-122.084,y
BodyValid ==
    <<"x", ",", "3", "7", ".", "4", "2", "2", ",", "-", "1", "2", "2", ".",
      "0", "8", "4", ",", "y">>
\* BodyLatOut is the text 95.5,10.5
BodyLatOut ==
    <<"9", "5", ".", "5", ",", "1", "0", ".", "5">>
\* BodyLngOut is the text 45.5,200.5
BodyLngOut ==
    <<"4", "5", ".", "5", ",", "2", "0", "0", ".", "5">>
\* BodyNoPair is the text ok
BodyNoPair ==
    <<"o", "k">>
\* BodyOutThenValid is the text 95.5,10.5;37.422,-122.084
BodyOutThenValid ==
    <<"9", "5", ".", "5", ",", "1", "0", ".", "5", ";", "3", "7", ".", "4",
      "2", "2", ",", "-", "1", "2", "2", ".", "0", "8", "4">>
\* BodyValidThenOther is the text 37.422,-122.084;1.5,2.5
BodyValidThenOther ==
    <<"3", "7", ".", "4", "2", "2", ",", "-", "1", "2", "2", ".", "0", "8",
      "4", ";", "1", ".", "5", ",", "2", ".", "5">>

\* LocPrefix is the text 40.5x,-75.5
LocPrefix ==
    <<"4", "0", ".", "5", "x", ",", "-", "7", "5", ".", "5">>
\* LocMissing is the text 40.5,
LocMissing ==
    <<"4", "0", ".", "5", ",">>
\* LocThree is the text 1.5,2.5,3.5
LocThree ==
    <<"1", ".", "5", ",", "2", ".", "5", ",", "3", ".", "5">>
\* LocSpaced is the text 40.5 , -75.5
LocSpaced ==
    <<"4", "0", ".", "5", " ", ",", " ", "-", "7", "5", ".", "5">>

\* The values of the 'location' parameter that are parsed on their own.
LocationTexts ==
    {LocPhilly, LocMalformed, LocPrefix, LocMissing, LocThree, LocSpaced}

\* Latitudes and longitudes, in units of 10^-FracDigits, that the page
\* encodes: boundary, integer-valued, negative and fractional values.
LatValues ==
    {-90 * Scale, -455 * (Scale \div 10), 0, 48 * Scale,
     488566 * (Scale \div 10000), 90 * Scale}
LngValues ==
    {-180 * Scale, -122084 * (Scale \div 1000), 0, 2 * Scale,
     23522 * (Scale \div 10000), 180 * Scale}

\* The text of a pair in the three encodings.
PbText(lat, lng) ==
    <<"!", "3", "d">> \o NumberText(lat) \o <<"!", "4", "d">>
        \o NumberText(lng)
PairText(lat, lng) == NumberText(lat) \o << "," >> \o NumberText(lng)

\* A map iframe (one that iframe[src*="google.com/maps"] selects): whether
\* new URL(iframe.src) succeeds, and the 'pb' and 'location' search
\* parameters of the URL.
Iframe(parses, hasPb, pb, hasLocation, location) ==
    [parses |-> parses, hasPb |-> hasPb, pb |-> pb,
     hasLocation |-> hasLocation, location |-> location]

SrcPb == Iframe(TRUE, TRUE, PbParis, FALSE, << >>)
SrcLocation == Iframe(TRUE, TRUE, PbNoMatch, TRUE, LocPhilly)
SrcBoth == Iframe(TRUE, TRUE, PbParis, TRUE, LocPhilly)
SrcNoParams == Iframe(TRUE, FALSE, << >>, FALSE, << >>)
SrcUnparseable == Iframe(FALSE, FALSE, << >>, FALSE, << >>)
\* Both parameters present and neither holds a coordinate.
SrcMalformed == Iframe(TRUE, TRUE, PbNoMatch, TRUE, LocMalformed)

\* A 'pb' whose latitude is a lone '.', which parseFloat makes NaN.
SrcNaN == Iframe(TRUE, TRUE, PbDot, FALSE, << >>)

IframeSrcs ==
    {SrcPb, SrcLocation, SrcBoth, SrcNoParams, SrcUnparseable, SrcMalformed,
     SrcNaN}
Urls == {UrlMaps, UrlCoordinates, UrlOther}
Bodies ==
    {BodyValid, BodyLatOut, BodyLngOut, BodyNoPair, BodyOutThenValid,
     BodyValidThenOther}

\* The value a table of pairs <<input, value>> holds for x (the matchers
\* are computed once for each input text).
Lookup(table, x) == (CHOOSE p \in table : p[1] = x)[2]

(***************************************************************************)
(* State.                                                                  *)
(***************************************************************************)
VARIABLES
    iframes,          \* the attached map iframes, in document order
    currentLocation,  \* LocationExtractor.currentLocation
    accepted,         \* history: the coordinate accepted last, and by whom
    observers,        \* length of LocationExtractor.observers (all connected)
    batch,            \* kinds of the added nodes not yet delivered to them
    isInitialized,    \* App.isInitialized
    wrapped,          \* window.fetch and XMLHttpRequest open/send are wrappers
    body,             \* document.body exists
    readyState,       \* "loading" until DOMContentLoaded has fired
    listeners,        \* DOMContentLoaded listeners waiting to call monitorDOM
    reqs,             \* the intercepted requests in flight
    appCurrentLocation, \* App.currentLocation
    mapShown,         \* the coordinate in the map iframe's URL
    history,          \* the stored location history, newest first
    now,              \* Date.now()
    display,          \* container.style.display: "", "flex" or "none"
    visible,          \* the container has the class 'visible'
    timers,           \* the pending timers, in the order they were set
    presses,          \* history: the number of INSERT presses is odd
    last              \* history: the operation that ran last

\* The start-up state, which the engine's operations leave alone.
startup == <<isInitialized, wrapped, body, readyState, listeners>>

\* The front end: the application state, the window and the stored history,
\* which the engine's operations leave alone.
front == <<appCurrentLocation, mapShown, history, now, display, visible,
           timers, presses>>

vars == <<iframes, currentLocation, accepted, observers, batch,
          startup, reqs, front, last>>

\* What the last step did: the path it took, the cache before it (queries,
\* watcher callbacks and interceptor handlers),
\* what the unwrapped primitive produced (network operations) and what the
\* operation returned; `prior` is the acceptance record before a query,
\* `again` tells that the query directly follows another query and `text`
\* is the response text an interceptor handler has matched.
Did(op, note, cache, orig, ret) ==
    [op |-> op, note |-> note, cache |-> cache, orig |-> orig, ret |-> ret,
     prior |-> Null, again |-> FALSE, text |-> << >>]

\* A producer accepts a coordinate; pageSince tells whether the page has
\* changed the map iframes since.
AcceptedBy(value, by) == [value |-> value, by |-> by, pageSince |-> FALSE]

PageChanged(acc) == [acc EXCEPT !.pageSince = TRUE]

(***************************************************************************)
(* Passive scanner.                                                        *)
(***************************************************************************)
\* The body of the loop of extractFromIframe for one iframe: the coordinate
\* it returns, or Null when the loop goes on to the next iframe.  match is
\* the result of the pattern on 'pb', coords that of parseCoordinates on
\* 'location' (<< >> and Null when the parameter is absent).
\* A loop body that tries the 'location' parameter before 'pb'.
LocationFirst(match, coords) ==
    IF coords # Null THEN WithSource(coords, "iframe-location")
    ELSE IF match # << >>
    THEN [lat |-> ParseFloat(match[1]), lng |-> ParseFloat(match[2]),
          source |-> "iframe-pb"]
    ELSE Null

IframeResult(match, coords) ==
    IF match # << >>
    THEN [lat |-> ParseFloat(match[1]), lng |-> ParseFloat(match[2]),
          source |-> "iframe-pb"]
    ELSE IF coords # Null THEN WithSource(coords, "iframe-location")
    ELSE Null

\* An exception on its way out of a block.
Threw == [threw |-> TRUE]

\* The try block of the loop body for one iframe: new URL(iframe.src)
\* throws on a src that is no URL.
IframeBody(iframe) ==
    IF ~iframe.parses THEN Threw
    ELSE IframeResult(
             IF iframe.hasPb THEN StructuredMatch(iframe.pb) ELSE << >>,
             IF iframe.hasLocation THEN parseCoordinates(iframe.location)
             ELSE Null)

IframeBodyTable == {<<src, IframeBody(src)>> : src \in IframeSrcs}

\* A loop body without its catch clause: the exception leaves the scan.
Uncaught(outcome) == outcome

\* catch (err) { continue; }: the loop goes on to the next iframe.
CatchContinue(outcome) == IF outcome = Threw THEN Null ELSE outcome

IframeMatch(iframe) == CatchContinue(Lookup(IframeBodyTable, iframe))

IframeMatchTable == {<<src, IframeMatch(src)>> : src \in IframeSrcs}

\* A scan that gives up at the first iframe that fails to parse or to match.
ScanStopsAtFailure(frames) ==
    IF frames = << >> THEN Null ELSE Lookup(IframeMatchTable, Head(frames))

\* LocationExtractor.extractFromIframe: the loop over the iframes, `found`
\* being what the loop body gives for the first of them.
RECURSIVE extractFromIframe(_)
ScanOr(frames, found) ==
    IF found # Null THEN found ELSE extractFromIframe(Tail(frames))

extractFromIframe(frames) ==
    IF frames = << >> THEN Null
    ELSE ScanOr(frames, Lookup(IframeMatchTable, Head(frames)))

(***************************************************************************)
(* Cache / reconciler.                                                     *)
(***************************************************************************)
NetworkSources == {"fetch", "xhr"}

\* A write that updates lat and lng of the record already in the cache.
StoreInPlace(cached, reading) ==
    IF cached = Null THEN reading
    ELSE [cached EXCEPT !.lat = reading.lat, !.lng = reading.lng]

\* A write that keeps a coordinate already in the cache.
KeepEarlier(cached, reading) == IF cached # Null THEN cached ELSE reading

\* LocationExtractor.currentLocation = reading: the cache after a write of
\* the watcher or of an interceptor, which assigns a new record.
StoreReading(cached, reading) == reading

\* A query that keeps a cached network reading instead of the scan result.
CacheKeepsNetwork(iframeLocation, cached) ==
    IF cached # Null /\ cached.source \in NetworkSources THEN cached
    ELSE IF iframeLocation # Null THEN iframeLocation ELSE cached

\* A query whose failed scan erases the cache.
CacheErasedOnMiss(iframeLocation, cached) == iframeLocation

\* getCurrentLocation: the cache after the call.
CacheAfterQuery(iframeLocation, cached) ==
    IF iframeLocation # Null THEN iframeLocation ELSE cached

\* A query that returns what the cache held when it was called.
ReturnsCachedBefore(iframeLocation, cached) == cached

\* getCurrentLocation: the value returned.
ReturnOfQuery(iframeLocation, cached) ==
    IF iframeLocation # Null THEN iframeLocation ELSE cached

\* LocationExtractor.getCurrentLocation
getCurrentLocation ==
    LET iframeLocation == extractFromIframe(iframes)
    IN  /\ currentLocation' = CacheAfterQuery(iframeLocation, currentLocation)
        /\ accepted' = IF iframeLocation # Null
                       THEN AcceptedBy(iframeLocation, "query") ELSE accepted
        /\ last' = [Did("getCurrentLocation",
                        IF iframeLocation # Null THEN "scan" ELSE "cached",
                        currentLocation, Null,
                        ReturnOfQuery(iframeLocation, currentLocation))
                    EXCEPT !.prior = accepted,
                           !.again = (last.op = "getCurrentLocation")]
        /\ UNCHANGED <<iframes, observers, batch, startup, front, reqs>>

\* A scan that also stores what it found.
extractAndStore ==
    /\ currentLocation' = CacheAfterQuery(extractFromIframe(iframes),
                                          currentLocation)
    /\ last' = Did("extractFromIframe", "", Null, Null,
                   extractFromIframe(iframes))
    /\ UNCHANGED <<iframes, accepted, observers, batch, startup, front, reqs>>

\* A direct call of LocationExtractor.extractFromIframe (the object is
\* exposed as window.OpenGuessrEnhanced.LocationExtractor).
extractFromIframeCall ==
    /\ last' = Did("extractFromIframe", "", Null, Null,
                   extractFromIframe(iframes))
    /\ UNCHANGED <<iframes, currentLocation, accepted, observers, batch,
                   startup, front, reqs>>

(***************************************************************************)
(* The page changes the document.                                          *)
(***************************************************************************)
Page == Did("page", "", Null, Null, Null)

InsertAt(seq, k, x) ==
    SubSeq(seq, 1, k - 1) \o << x >> \o SubSeq(seq, k, Len(seq))
RemoveAt(seq, k) == SubSeq(seq, 1, k - 1) \o SubSeq(seq, k + 1, Len(seq))

\* Kinds of added node a mutation record can hold: a map iframe itself, or
\* an element that contains one.
MapNodeKinds == {"iframe", "wrapper"}

\* The page attaches a map iframe at position k, as the inserted node
\* itself or inside an inserted element; connected observers queue a record.
InsertIframe(src, k, kind) ==
    /\ body
    /\ Len(iframes) < MaxIframes
    /\ k \in 1..(Len(iframes) + 1)
    /\ iframes' = InsertAt(iframes, k, src)
    /\ batch' = IF observers > 0 THEN batch \cup {kind} ELSE batch
    /\ accepted' = PageChanged(accepted)
    /\ last' = Page
    /\ UNCHANGED <<currentLocation, observers, startup, front, reqs>>

\* The page detaches the map iframe at position k (the watcher reads only
\* addedNodes, so the record queued for a removal has no effect).
RemoveIframe(k) ==
    /\ k \in 1..Len(iframes)
    /\ iframes' = RemoveAt(iframes, k)
    /\ accepted' = PageChanged(accepted)
    /\ last' = Page
    /\ UNCHANGED <<currentLocation, observers, batch, startup, front, reqs>>

\* The page points the map iframe at position k to another URL (an attribute
\* change, which the childList subscription does not report).
SetIframeSrc(k, src) ==
    /\ k \in 1..Len(iframes)
    /\ iframes[k] # src
    /\ iframes' = [iframes EXCEPT ![k] = src]
    /\ accepted' = PageChanged(accepted)
    /\ last' = Page
    /\ UNCHANGED <<currentLocation, observers, batch, startup, front, reqs>>

(***************************************************************************)
(* Mutation watcher.                                                       *)
(***************************************************************************)
\* The page attaches an element that neither is nor contains a map iframe.
InsertOther ==
    /\ body
    /\ observers > 0
    /\ "other" \notin batch
    /\ batch' = batch \cup {"other"}
    /\ last' = Page
    /\ UNCHANGED <<iframes, currentLocation, accepted, observers, startup,
                   front, reqs>>

\* A callback that tests only whether an added node is itself a map iframe.
RescansForIframesOnly(nodes) == "iframe" \in nodes

\* Whether the callback of monitorDOM rescans for this batch of added nodes.
WatcherRescans(nodes) == nodes \cap MapNodeKinds # {}

\* The callback of the MutationObserver of monitorDOM, for the queued batch.
\* Every rescan of one callback reads the same document, so the batch is
\* kept as the set of the kinds of its added nodes.
MutationCallback ==
    /\ observers > 0
    /\ batch # {}
    /\ LET location == extractFromIframe(iframes)
           writes == WatcherRescans(batch) /\ location # Null
       IN  /\ currentLocation' = IF writes
                              THEN StoreReading(currentLocation, location)
                              ELSE currentLocation
           /\ accepted' = IF writes THEN AcceptedBy(location, "watcher")
                          ELSE accepted
           /\ last' = Did("mutationCallback",
                          IF writes THEN "wrote" ELSE "no write",
                          currentLocation, Null, Null)
    /\ batch' = {}
    /\ UNCHANGED <<iframes, observers, startup, front, reqs>>

(***************************************************************************)
(* Start-up and teardown.                                                  *)
(***************************************************************************)
\* App.initialize, called by the start-up timers or through
\* window.OpenGuessrEnhanced; it returns at once when isInitialized is set.
\* LocationExtractor.initialize wraps the network primitives and, when the
\* document body exists, monitorDOM subscribes an observer; otherwise a
\* DOMContentLoaded listener is added to do so.  UI.createElements then
\* appends to document.body: without a body it throws, and isInitialized,
\* which is set last, stays false.
AppInitialize ==
    /\ ~isInitialized
    /\ wrapped' = TRUE
    /\ IF body
       THEN /\ observers' = observers + 1
            /\ isInitialized' = TRUE
            /\ listeners' = listeners
            /\ timers' = Append(timers, "initial check")
            /\ last' = Did("initialize", "", Null, Null, Null)
       ELSE /\ listeners < MaxEarlyCalls
            /\ listeners' = listeners + 1
            /\ UNCHANGED <<observers, isInitialized, timers>>
            /\ last' = Did("initialize", "threw", Null, Null, Null)
    /\ UNCHANGED <<iframes, currentLocation, accepted, batch, body,
                   readyState, reqs, appCurrentLocation, mapShown, history,
                   now, display, visible, presses>>

\* The parser creates the document body.
BodyParsed ==
    /\ ~body
    /\ body' = TRUE
    /\ last' = Page
    /\ UNCHANGED <<iframes, currentLocation, accepted, observers, batch,
                   isInitialized, wrapped, readyState, listeners, reqs,
                   front>>

\* DOMContentLoaded fires: every listener added by
\* LocationExtractor.initialize calls monitorDOM.  (The script's own
\* listener starts the timer that calls App.initialize.)
DOMContentLoaded ==
    /\ readyState = "loading"
    /\ body
    /\ readyState' = "interactive"
    /\ observers' = observers + listeners
    /\ listeners' = 0
    /\ last' = Did("DOMContentLoaded", "", Null, Null, Null)
    /\ UNCHANGED <<iframes, currentLocation, accepted, batch, isInitialized,
                   wrapped, body, reqs, front>>

\* A teardown that also restores the network primitives and drops the
\* requests in flight.
cleanupUnwraps ==
    /\ observers' = 0
    /\ batch' = {}
    /\ wrapped' = FALSE
    /\ reqs' = {}
    /\ last' = Did("cleanup", "", Null, Null, Null)
    /\ UNCHANGED <<iframes, currentLocation, accepted, isInitialized, body,
                   readyState, listeners, front>>

\* A teardown that also forgets the cached coordinate.
cleanupClearsCache ==
    /\ observers' = 0
    /\ batch' = {}
    /\ currentLocation' = Null
    /\ accepted' = AcceptedBy(Null, "none")
    /\ last' = Did("cleanup", "", Null, Null, Null)
    /\ UNCHANGED <<iframes, startup, front, reqs>>

\* LocationExtractor.cleanup: every observer is disconnected (which drops
\* its queued records) and the list is emptied.
cleanup ==
    /\ observers' = 0
    /\ batch' = {}
    /\ last' = Did("cleanup", "", Null, Null, Null)
    /\ UNCHANGED <<iframes, currentLocation, accepted, startup, front, reqs>>

(***************************************************************************)
(* Active interceptors.                                                    *)
(***************************************************************************)
Maps == <<"m", "a", "p", "s">>
Location == <<"l", "o", "c", "a", "t", "i", "o", "n">>
Coordinates == <<"c", "o", "o", "r", "d", "i", "n", "a", "t", "e", "s">>

\* The URL test of the fetch wrapper.
FetchUrlMatches(url) ==
    Includes(url, Maps) \/ Includes(url, Location) \/ Includes(url, Coordinates)

\* The URL test of the XHR load handler.
XhrUrlMatches(url) ==
    url # << >> /\ (Includes(url, Maps) \/ Includes(url, Location))

\* The range tests of the two handlers.
LatInRange(coords) == Geq(coords.lat, -90) /\ Leq(coords.lat, 90)
LngInRange(coords) == Geq(coords.lng, -180) /\ Leq(coords.lng, 180)

\* A handler that parses the last match of the pair pattern.
LastOf(coordMatch) ==
    IF coordMatch = << >> THEN Null
    ELSE parseCoordinates(coordMatch[Len(coordMatch)])

\* parseCoordinates(coordMatch[0]) for the matches of the pair pattern, Null
\* when there is no match.
FirstOf(coordMatch) ==
    IF coordMatch = << >> THEN Null ELSE parseCoordinates(coordMatch[1])

FirstPair(text) == FirstOf(PairMatches(text))

\* The test of the fetch wrapper on the parsed pair, and what it stores.
FetchAccepts(coords) ==
    IF coords # Null /\ LatInRange(coords) /\ LngInRange(coords)
    THEN WithSource(coords, "fetch") ELSE Null

\* What the fetch wrapper stores for a response text: a coordinate, or Null
\* when it stores nothing.
fetchCoords(text) == FetchAccepts(FirstPair(text))

\* The test of the XHR load handler on the parsed pair, and what it stores.
XhrAccepts(coords) ==
    IF coords # Null /\ LatInRange(coords)
    THEN WithSource(coords, "xhr") ELSE Null

\* What the XHR load handler stores for a response text.
xhrCoords(text) == XhrAccepts(FirstPair(text))

FetchUrlTable == {<<url, FetchUrlMatches(url)>> : url \in Urls}
XhrUrlTable == {<<url, XhrUrlMatches(url)>> : url \in Urls}
FetchCoordsTable == {<<text, fetchCoords(text)>> : text \in Bodies}
XhrCoordsTable == {<<text, xhrCoords(text)>> : text \in Bodies}

\* The records a single reading can yield: the result of the loop body for
\* one iframe, or what an interceptor stores for one response text.
Readings ==
    ({p[2] : p \in IframeMatchTable} \cup {p[2] : p \in FetchCoordsTable}
        \cup {p[2] : p \in XhrCoordsTable}) \ {Null}

\* Objects and outcomes of the network primitives.
Object(name) == [obj |-> name, bodyUsed |-> FALSE]
Outcome(kind, value) == [outcome |-> kind, value |-> value]
Response == Object("response")
FetchOutcomes ==
    {Outcome("fulfilled", Response), Outcome("rejected", Object("error"))}
XhrOutcomes ==
    {Outcome("returned", Object("undefined")),
     Outcome("threw", Object("error"))}

Req(api, url, pc, response) ==
    [api |-> api, url |-> url, pc |-> pc, response |-> response]

\* The page calls the wrapped window.fetch: the wrapper calls the original
\* fetch and awaits it.
FetchCall(url) ==
    /\ wrapped
    /\ Cardinality(reqs) < MaxRequests
    /\ Req("fetch", url, "await fetch", Null) \notin reqs
    /\ reqs' = reqs \cup {Req("fetch", url, "await fetch", Null)}
    /\ last' = Did("fetch called", "", Null, Null, Null)
    /\ UNCHANGED <<iframes, currentLocation, accepted, observers, batch,
                   startup, front>>

\* A wrapper that reads the text of the response itself.
ResponseConsumed(response) == [response EXCEPT !.bodyUsed = TRUE]

\* The original response once the wrapper has started to read the body:
\* the wrapper reads a clone, so the response itself is untouched.
ResponseWhileReading(response) == response

\* What the wrapper's promise settles with, given the response it holds.
FetchReturn(response) == Outcome("fulfilled", response)

\* A wrapper without the try/catch: the failure rejects its promise.
NotCaught(response) == Outcome("rejected", Object("inspection error"))

\* A failure of the inspection is caught and the response returned.
Caught(response) == FetchReturn(response)

\* The original fetch settles.  Rejected: the await throws outside the try
\* and the wrapper rejects with the same error.  Fulfilled: when the URL
\* matches, the response is cloned and the wrapper awaits the clone's text;
\* a clone that throws is caught and the response returned at once.
FetchSettled(r, orig, cloneOk) ==
    /\ r \in reqs /\ r.api = "fetch" /\ r.pc = "await fetch"
    /\ orig \in FetchOutcomes
    /\ IF orig.outcome = "rejected"
       THEN /\ reqs' = reqs \ {r}
            /\ last' = Did("fetch settled", "rejected", Null, orig, orig)
       ELSE IF ~Lookup(FetchUrlTable, r.url)
       THEN /\ reqs' = reqs \ {r}
            /\ last' = Did("fetch settled", "not inspected", Null, orig,
                           FetchReturn(orig.value))
       ELSE IF ~cloneOk
       THEN /\ reqs' = reqs \ {r}
            /\ last' = Did("fetch settled", "clone failed", Null, orig,
                           Caught(orig.value))
       ELSE /\ reqs' = (reqs \ {r}) \cup
                       {Req("fetch", r.url, "await text",
                            ResponseWhileReading(orig.value))}
            /\ last' = Did("fetch reading", "", Null, Null, Null)
    /\ UNCHANGED <<iframes, currentLocation, accepted, observers, batch,
                   startup, front>>

\* clonedResponse.text() settles: with the text, which is searched for a
\* pair, or with a failure, which is caught; then the response is returned.
FetchTextSettled(r, text, readOk) ==
    /\ r \in reqs /\ r.api = "fetch" /\ r.pc = "await text"
    /\ LET found == IF readOk THEN Lookup(FetchCoordsTable, text) ELSE Null
       IN  /\ currentLocation' = IF found # Null
                              THEN StoreReading(currentLocation, found)
                              ELSE currentLocation
           /\ accepted' = IF found # Null THEN AcceptedBy(found, "fetch")
                          ELSE accepted
           /\ last' = [Did("fetch settled",
                           IF ~readOk THEN "read failed"
                           ELSE IF found # Null THEN "wrote" ELSE "no write",
                           currentLocation, Outcome("fulfilled", Response),
                           IF readOk THEN FetchReturn(r.response)
                           ELSE Caught(r.response))
                       EXCEPT !.text = IF readOk THEN text ELSE << >>]
    /\ reqs' = reqs \ {r}
    /\ UNCHANGED <<iframes, observers, batch, startup, front>>

\* What a wrapped XMLHttpRequest method gives its caller, the original
\* having returned or thrown `orig`.
XhrReturn(orig) == orig

\* The page calls the wrapped open on a request object: _url is set and
\* the original called.  Objects that are opened and not yet sent are not
\* tracked: nothing reads them before send.
XhrOpen(url, orig) ==
    /\ wrapped
    /\ orig \in XhrOutcomes
    /\ last' = Did("xhr.open", "", Null, orig, XhrReturn(orig))
    /\ UNCHANGED <<iframes, currentLocation, accepted, observers, batch,
                   startup, front, reqs>>

\* The page calls the wrapped send on an object opened with `url`: a load
\* listener is added and the original called.
XhrSend(url, orig) ==
    /\ wrapped
    /\ Cardinality(reqs) < MaxRequests
    /\ orig \in XhrOutcomes
    /\ Req("xhr", url, "sent", Null) \notin reqs
    /\ reqs' = IF orig.outcome = "returned"
               THEN reqs \cup {Req("xhr", url, "sent", Null)} ELSE reqs
    /\ last' = Did("xhr.send", "", Null, orig, XhrReturn(orig))
    /\ UNCHANGED <<iframes, currentLocation, accepted, observers, batch,
                   startup, front>>

\* The load event of a sent request: the listener added by send runs.
\* readable is false when reading responseText throws (a responseType
\* other than text), which the handler catches.
XhrLoad(r, text, readable) ==
    /\ r \in reqs /\ r.api = "xhr" /\ r.pc = "sent"
    /\ LET inspected == Lookup(XhrUrlTable, r.url)
           found == IF inspected /\ readable
                    THEN Lookup(XhrCoordsTable, text) ELSE Null
       IN  /\ currentLocation' = IF found # Null
                              THEN StoreReading(currentLocation, found)
                              ELSE currentLocation
           /\ accepted' = IF found # Null THEN AcceptedBy(found, "xhr")
                          ELSE accepted
           /\ last' = [Did("xhr load",
                           IF ~inspected THEN "not inspected"
                           ELSE IF ~readable THEN "read failed"
                           ELSE IF found # Null THEN "wrote" ELSE "no write",
                           currentLocation, Null, Null)
                       EXCEPT !.text = IF inspected /\ readable THEN text
                                       ELSE << >>]
    /\ reqs' = reqs \ {r}
    /\ UNCHANGED <<iframes, observers, batch, startup, front>>

\* A sent request ends without a load event (error, abort, timeout).
XhrError(r) ==
    /\ r \in reqs /\ r.api = "xhr" /\ r.pc = "sent"
    /\ reqs' = reqs \ {r}
    /\ last' = Page
    /\ UNCHANGED <<iframes, currentLocation, accepted, observers, batch,
                   startup, front>>

(***************************************************************************)
(* Specifications.                                                         *)
(***************************************************************************)
(* Storage: the location history.                                          *)
(***************************************************************************)
\* JavaScript's x === y on numbers: false when either is NaN.
StrictEq(x, y) == ~IsNaN(x) /\ ~IsNaN(y) /\ x = y

\* !(h.lat !== location.lat || h.lng !== location.lng)
SameLatLng(h, location) ==
    StrictEq(h.lat, location.lat) /\ StrictEq(h.lng, location.lng)

\* { ...location, timestamp }
Entry(location, timestamp) ==
    [lat |-> location.lat, lng |-> location.lng,
     source |-> location.source, timestamp |-> timestamp]

\* A history that keeps the entries of the location added.
KeepsDuplicates(entries, location) == entries

\* history.filter(h => h.lat !== location.lat || h.lng !== location.lng)
WithoutDuplicates(entries, location) ==
    SelectSeq(entries, LAMBDA h : ~SameLatLng(h, location))

\* A history without a limit.
NoLimit(entries) == entries

\* history.slice(0, CONFIG.MAX_HISTORY) when the history is longer.
Limit(entries) ==
    IF Len(entries) > MAX_HISTORY THEN SubSeq(entries, 1, MAX_HISTORY)
    ELSE entries

\* history.unshift(entry)
Unshift(entry, entries) == << entry >> \o entries

\* Storage.addLocationToHistory: the history stored by the call.
addLocationToHistory(entries, location, timestamp) ==
    Limit(Unshift(Entry(location, timestamp),
                  WithoutDuplicates(entries, location)))

\* What the call did to the history: it moved an entry to the front,
\* dropped the oldest entry, or just added one.
NoteOfAdd(entries, location) ==
    IF \E k \in 1..Len(entries) : SameLatLng(entries[k], location)
    THEN "moved"
    ELSE IF Len(entries) >= MAX_HISTORY THEN "dropped oldest" ELSE "added"

\* A direct call of Storage.addLocationToHistory (the object is exposed as
\* window.OpenGuessrEnhanced.Storage).
AddLocation(location) ==
    /\ history' = addLocationToHistory(history, location, now)
    /\ last' = Did("addLocationToHistory", NoteOfAdd(history, location),
                   Null, Null, Null)
    /\ UNCHANGED <<iframes, currentLocation, accepted, observers, batch,
                   startup, reqs, appCurrentLocation, mapShown, now,
                   display, visible, timers, presses>>

\* Storage.clearLocationHistory (the 'clear history' button).
clearLocationHistory ==
    /\ history' = << >>
    /\ last' = Did("clearLocationHistory", "", Null, Null, Null)
    /\ UNCHANGED <<iframes, currentLocation, accepted, observers, batch,
                   startup, reqs, appCurrentLocation, mapShown, now,
                   display, visible, timers, presses>>

\* A millisecond passes.
ClockTick ==
    /\ now < MaxClock
    /\ now' = now + 1
    /\ last' = Did("clock", "", Null, Null, Null)
    /\ UNCHANGED <<iframes, currentLocation, accepted, observers, batch,
                   startup, reqs, appCurrentLocation, mapShown, history,
                   display, visible, timers, presses>>

(***************************************************************************)
(* The application: the window, the poller and the start-up check.         *)
(***************************************************************************)
\* The history record of a query made by the application.
AcceptedAfterQuery(iframeLocation, acc) ==
    IF iframeLocation # Null THEN AcceptedBy(iframeLocation, "query") ELSE acc

\* A poller that notifies only when the application has no location yet.
ChangedFromNone(location, current) == current = Null

\* The test of the poller: location.lat !== App.currentLocation?.lat ||
\* location.lng !== App.currentLocation?.lng
LocationChanged(location, current) ==
    \/ current = Null
    \/ ~StrictEq(location.lat, current.lat)
    \/ ~StrictEq(location.lng, current.lng)

\* The test of App.updateLocation: App.currentLocation && both are ===.
NoChange(location, current) ==
    /\ current # Null
    /\ StrictEq(current.lat, location.lat)
    /\ StrictEq(current.lng, location.lng)

\* if (location) App.currentLocation = location, as UI.show and the
\* start-up check do it (the map is set likewise by UI.show).
ShownLocation(location, current) ==
    IF location # Null THEN location ELSE current

\* App.updateLocation: whether it goes on past its two early returns.
Updates(location, current) == location # Null /\ ~NoChange(location, current)

\* The interval callback of App.startLocationMonitoring.
PollerTick ==
    /\ isInitialized
    /\ IF display = "none"
       THEN /\ last' = Did("tick", "skipped", Null, Null, Null)
            /\ UNCHANGED <<currentLocation, accepted, appCurrentLocation,
                           mapShown, history>>
       ELSE LET iframeLocation == extractFromIframe(iframes)
                location == ReturnOfQuery(iframeLocation, currentLocation)
                notifies == location # Null
                            /\ LocationChanged(location, appCurrentLocation)
            IN  /\ currentLocation' =
                       CacheAfterQuery(iframeLocation, currentLocation)
                /\ accepted' = AcceptedAfterQuery(iframeLocation, accepted)
                /\ appCurrentLocation' =
                       IF notifies THEN location ELSE appCurrentLocation
                /\ mapShown' = IF notifies THEN location ELSE mapShown
                /\ history' =
                       IF notifies
                       THEN addLocationToHistory(history, location, now)
                       ELSE history
                /\ last' = Did("tick",
                               IF location = Null THEN "no location"
                               ELSE IF notifies THEN "notified" ELSE "same",
                               Null, Null, location)
    /\ UNCHANGED <<iframes, observers, batch, startup, reqs, now, display,
                   visible, timers, presses>>

\* UI.show, called through window.OpenGuessrEnhanced.open(): the window is
\* displayed, the class follows after 10 ms, and the location found is
\* shown.
UIShow ==
    /\ isInitialized
    /\ Len(timers) < MaxTimers
    /\ LET iframeLocation == extractFromIframe(iframes)
           location == ReturnOfQuery(iframeLocation, currentLocation)
       IN  /\ currentLocation' =
                  CacheAfterQuery(iframeLocation, currentLocation)
           /\ accepted' = AcceptedAfterQuery(iframeLocation, accepted)
           /\ appCurrentLocation' =
                  ShownLocation(location, appCurrentLocation)
           /\ mapShown' = ShownLocation(location, mapShown)
           /\ last' = Did("show", "", Null, Null, location)
    /\ display' = "flex"
    /\ timers' = Append(timers, "show")
    /\ UNCHANGED <<iframes, observers, batch, startup, reqs, history, now,
                   visible, presses>>

\* UI.hide, called by the close button: the class is removed and the window
\* stops being displayed after CONFIG.ANIMATION_DURATION.
UIHide ==
    /\ isInitialized
    /\ Len(timers) < MaxTimers
    /\ visible' = FALSE
    /\ timers' = Append(timers, "hide")
    /\ last' = Did("hide", "", Null, Null, Null)
    /\ UNCHANGED <<iframes, currentLocation, accepted, observers, batch,
                   startup, reqs, appCurrentLocation, mapShown, history,
                   now, display, presses>>

\* The keydown listener on 'Insert': UI.toggle, which hides a window that
\* has the class 'visible' and otherwise calls UI.show and then
\* App.updateLocation.
KeyInsert ==
    /\ isInitialized
    /\ Len(timers) < MaxTimers
    /\ presses' = ~presses
    /\ IF visible
       THEN /\ visible' = FALSE
            /\ timers' = Append(timers, "hide")
            /\ last' = Did("toggle", "hide", Null, Null, Null)
            /\ UNCHANGED <<currentLocation, accepted, appCurrentLocation,
                           mapShown, history, display>>
       ELSE LET iframeLocation == extractFromIframe(iframes)
                location == ReturnOfQuery(iframeLocation, currentLocation)
                cached == CacheAfterQuery(iframeLocation, currentLocation)
                shown == ShownLocation(location, appCurrentLocation)
                again == ReturnOfQuery(iframeLocation, cached)
                updates == Updates(again, shown)
            IN  /\ currentLocation' = CacheAfterQuery(iframeLocation, cached)
                /\ accepted' = AcceptedAfterQuery(iframeLocation, accepted)
                /\ appCurrentLocation' = IF updates THEN again ELSE shown
                /\ mapShown' = IF updates THEN again
                               ELSE ShownLocation(location, mapShown)
                /\ history' =
                       IF updates
                       THEN addLocationToHistory(history, again, now)
                       ELSE history
                /\ display' = "flex"
                /\ visible' = visible
                /\ timers' = Append(timers, "show")
                /\ last' = Did("toggle", "show", Null, Null, again)
    /\ UNCHANGED <<iframes, observers, batch, startup, reqs, now>>

\* The k-th pending timer may fire next: a 10 ms 'show' timer fires before
\* every timer set after it and may overtake the 100 ms and 300 ms timers
\* set before it; the others fire in the order they were set.
MayFire(k) ==
    IF timers[k] = "show"
    THEN \A j \in 1..(k - 1) : timers[j] # "show"
    ELSE k = 1

\* A timer fires: the 10 ms timer of UI.show adds the class 'visible', the
\* timer of UI.hide stops displaying the window, and the 100 ms timer of
\* App.initialize makes the start-up check.
TimerFires(k) ==
    /\ k \in 1..Len(timers)
    /\ MayFire(k)
    /\ timers' = RemoveAt(timers, k)
    /\ visible' = (visible \/ timers[k] = "show")
    /\ display' = IF timers[k] = "hide" THEN "none" ELSE display
    /\ IF timers[k] = "initial check"
       THEN LET iframeLocation == extractFromIframe(iframes)
                loc == ReturnOfQuery(iframeLocation, currentLocation)
            IN  /\ currentLocation' =
                       CacheAfterQuery(iframeLocation, currentLocation)
                /\ accepted' = AcceptedAfterQuery(iframeLocation, accepted)
                /\ appCurrentLocation' =
                       ShownLocation(loc, appCurrentLocation)
                /\ last' = Did("timer", "initial check", Null, Null, loc)
       ELSE /\ last' = Did("timer", timers[k], Null, Null, Null)
            /\ UNCHANGED <<currentLocation, accepted, appCurrentLocation>>
    /\ UNCHANGED <<iframes, observers, batch, startup, reqs, mapShown,
                   history, now, presses>>

(***************************************************************************)
(* The matchers applied to one text.                                       *)
(***************************************************************************)
Pair(lat, lng) == [lat |-> Num(lat), lng |-> Num(lng)]

\* What a matcher made of `text`, which encodes `pair` (Null when the text
\* is not the encoding of a pair).
Matched(note, text, pair, ret) ==
    [Did("match", note, Null, pair, ret) EXCEPT !.text = text]

\* The scan meets an iframe whose 'pb' parameter is `text`.
MatchStructured(text, pair) ==
    /\ last' = Matched("structured", text, pair,
                       IframeBody(Iframe(TRUE, TRUE, text, FALSE, << >>)))
    /\ UNCHANGED <<iframes, currentLocation, accepted, observers, batch,
                   startup, front, reqs>>

\* The scan meets an iframe whose 'location' parameter is `text`.
MatchNamed(text, pair) ==
    /\ last' = Matched("named", text, pair,
                       IframeBody(Iframe(TRUE, FALSE, << >>, TRUE, text)))
    /\ UNCHANGED <<iframes, currentLocation, accepted, observers, batch,
                   startup, front, reqs>>

\* An interceptor matches the response text `text`.
MatchFreeText(api, text, pair) ==
    /\ last' = Matched(api, text, pair,
                       IF api = "fetch" THEN fetchCoords(text)
                       ELSE xhrCoords(text))
    /\ UNCHANGED <<iframes, currentLocation, accepted, observers, batch,
                   startup, front, reqs>>

(***************************************************************************)
Init ==
    /\ iframes = << >>
    /\ currentLocation = Null
    /\ accepted = AcceptedBy(Null, "none")
    /\ observers = 0
    /\ batch = {}
    /\ isInitialized = FALSE
    /\ wrapped = FALSE
    /\ readyState \in {"loading", "interactive"}   \* lines 1509-1513
    /\ body = (readyState # "loading")
    /\ listeners = 0
    /\ reqs = {}
    /\ appCurrentLocation = Null
    /\ mapShown = Null
    /\ history = << >>
    /\ now = 0
    /\ display = ""
    /\ visible = FALSE
    /\ timers = << >>
    /\ presses = FALSE
    /\ last = Did("load", "", Null, Null, Null)

\* The page changes the map iframes, drawn from `srcs`.
PageDom(srcs, kinds) ==
    \/ \E src \in srcs, k \in 1..MaxIframes, kind \in kinds :
           InsertIframe(src, k, kind)
    \/ \E k \in 1..MaxIframes : RemoveIframe(k)
    \/ \E k \in 1..MaxIframes, src \in srcs : SetIframeSrc(k, src)

\* Requests through the wrapped fetch.
Fetches(urls, texts) ==
    \/ \E url \in urls : FetchCall(url)
    \/ \E r \in reqs, orig \in FetchOutcomes, cloneOk \in BOOLEAN :
           FetchSettled(r, orig, cloneOk)
    \/ \E r \in reqs, text \in texts, readOk \in BOOLEAN :
           FetchTextSettled(r, text, readOk)

\* Requests through the wrapped XMLHttpRequest.
Xhrs(urls, texts) ==
    \/ \E url \in urls, orig \in XhrOutcomes : XhrSend(url, orig)
    \/ \E r \in reqs, text \in texts, readable \in BOOLEAN :
           XhrLoad(r, text, readable)
    \/ \E r \in reqs : XhrError(r)

\* The whole engine.
Next ==
    \/ BodyParsed
    \/ DOMContentLoaded
    \/ AppInitialize
    \/ cleanup
    \/ PageDom(IframeSrcs, MapNodeKinds)
    \/ InsertOther
    \/ MutationCallback
    \/ getCurrentLocation
    \/ extractFromIframeCall
    \/ Fetches(Urls, Bodies)
    \/ \E url \in Urls, orig \in XhrOutcomes : XhrOpen(url, orig)
    \/ Xhrs(Urls, Bodies)

Spec == Init /\ [][Next]_vars

\* The scanner and its callers: the page's map iframes, the watcher, queries
\* and direct scans.
NextScan ==
    \/ AppInitialize
    \/ cleanup
    \/ PageDom(IframeSrcs, MapNodeKinds)
    \/ MutationCallback
    \/ getCurrentLocation
    \/ extractFromIframeCall

SpecScan == Init /\ [][NextScan]_vars

\* Queries against every producer: iframes that match or not, the watcher,
\* and inspected requests whose response holds a pair that is stored.
QuerySrcs == {SrcPb, SrcLocation, SrcNoParams}
QueryUrls == {UrlMaps}
QueryBodies == {BodyValid, BodyLngOut}

NextQuery ==
    \/ AppInitialize
    \/ cleanup
    \/ PageDom(QuerySrcs, MapNodeKinds)
    \/ MutationCallback
    \/ getCurrentLocation
    \/ Fetches(QueryUrls, QueryBodies)
    \/ Xhrs(QueryUrls, QueryBodies)

SpecQuery == Init /\ [][NextQuery]_vars

\* The interceptors and queries, on a page without map iframes.
NextNet ==
    \/ AppInitialize
    \/ getCurrentLocation
    \/ Fetches(Urls, Bodies)
    \/ \E url \in Urls, orig \in XhrOutcomes : XhrOpen(url, orig)
    \/ Xhrs(Urls, Bodies)

SpecNet == Init /\ [][NextNet]_vars

\* The watcher against the interceptors: insertions of map iframes and of
\* other elements, callbacks, and inspected requests.
NextWatch ==
    \/ AppInitialize
    \/ cleanup
    \/ PageDom(QuerySrcs, MapNodeKinds)
    \/ InsertOther
    \/ MutationCallback
    \/ Fetches(QueryUrls, QueryBodies)
    \/ Xhrs(QueryUrls, QueryBodies)

SpecWatch == Init /\ [][NextWatch]_vars

\* Start-up and teardown in every order, with the page inserting map
\* iframes and making requests meanwhile.
StartupSrcs == {SrcPb, SrcNoParams}
StartupBodies == {BodyValid}

NextStartup ==
    \/ BodyParsed
    \/ DOMContentLoaded
    \/ AppInitialize
    \/ cleanup
    \/ PageDom(StartupSrcs, {"iframe"})
    \/ MutationCallback
    \/ Fetches(QueryUrls, StartupBodies)
    \/ Xhrs(QueryUrls, StartupBodies)

SpecStartup == Init /\ [][NextStartup]_vars

\* The matchers on their own: each applied to the encoding of a pair, and
\* the named-parameter matcher to well-formed and malformed values.
NextMatch ==
    \/ \E lat \in LatValues, lng \in LngValues :
           MatchStructured(PbText(lat, lng), Pair(lat, lng))
    \/ \E lat \in LatValues, lng \in LngValues :
           MatchNamed(PairText(lat, lng), Pair(lat, lng))
    \/ \E api \in NetworkSources, lat \in LatValues, lng \in LngValues :
           MatchFreeText(api, PairText(lat, lng), Pair(lat, lng))
    \/ \E text \in LocationTexts : MatchNamed(text, Null)

SpecMatch == Init /\ [][NextMatch]_vars

\* The stored history on its own: locations added and the history cleared
\* as time passes.
NextHistory ==
    \/ \E location \in Readings : AddLocation(location)
    \/ clearLocationHistory
    \/ ClockTick

SpecHistory == Init /\ [][NextHistory]_vars

\* The window under the INSERT key: presses and the timers they set, over
\* a page that shows map iframes or none.
NextWindow ==
    \/ AppInitialize
    \/ PageDom(StartupSrcs, {"iframe"})
    \/ KeyInsert
    \/ \E k \in 1..MaxTimers : TimerFires(k)

SpecWindow == Init /\ [][NextWindow]_vars

\* The poller over a page that changes its map iframes, with the window
\* closed now and then.
AppSrcs == {SrcPb, SrcLocation, SrcNaN}

NextPoller ==
    \/ AppInitialize
    \/ PageDom(AppSrcs, {"iframe"})
    \/ PollerTick
    \/ UIHide
    \/ \E k \in 1..MaxTimers : TimerFires(k)

SpecPoller == Init /\ [][NextPoller]_vars

\* Every path that sets App.currentLocation: the poller, the window opened
\* and toggled, and the start-up check.
NextApp ==
    \/ AppInitialize
    \/ PageDom(StartupSrcs, {"iframe"})
    \/ PollerTick
    \/ UIShow
    \/ KeyInsert
    \/ \E k \in 1..MaxTimers : TimerFires(k)

SpecApp == Init /\ [][NextApp]_vars

(***************************************************************************)
(* Properties.                                                             *)
(***************************************************************************)
\* A coordinate is null, or finite and within the latitude and longitude
\* ranges (the comparisons are false for NaN).
ValidOrNull(c) == c = Null \/ (LatInRange(c) /\ LngInRange(c))

\* The scan of the document as it is.
Scanned == extractFromIframe(iframes)

\* The response of request r has been read as `text` by its handler.
Inspected(r, text) == XhrLoad(r, text, TRUE) \/ FetchTextSettled(r, text, TRUE)

\* C1: in every reachable state the cached coordinate, and every value
\* getCurrentLocation has returned, is null or a pair with a finite lat in
\* [-90,90] and a finite lng in [-180,180], whichever producer wrote it.
C1_StoredAndReturnedValid ==
    /\ ValidOrNull(currentLocation)
    /\ last.op = "getCurrentLocation" => ValidOrNull(last.ret)

\* C2: when getCurrentLocation is called while the scan of the attached map
\* iframes succeeds, it returns the scanned coordinate and the cache holds
\* exactly that coordinate afterwards, whatever the cache held before.
C2_ScanSupersedesCache ==
    (last.op = "getCurrentLocation" /\ Scanned # Null)
        => (last.ret = Scanned /\ currentLocation = Scanned)

\* C2 happens: a query overwrote a network-sourced coordinate, accepted after
\* the last change of the map iframes, with the scanned one.
C2_NetworkReadingOverwritten ==
    /\ last.op = "getCurrentLocation"
    /\ last.cache # Null /\ last.cache.source \in NetworkSources
    /\ last.prior.by \in NetworkSources /\ ~last.prior.pageSince
    /\ last.ret # Null /\ last.ret.source = "iframe-pb"
    /\ currentLocation = last.ret

\* C3: when getCurrentLocation is called while the scan yields nothing, it
\* returns the cached coordinate and leaves the cache unchanged: null if no
\* producer has ever accepted a coordinate, and otherwise the coordinate
\* accepted last.
C3_FailedScanKeepsCache ==
    (last.op = "getCurrentLocation" /\ Scanned = Null)
        => /\ last.ret = last.cache
           /\ currentLocation = last.cache
           /\ last.ret = last.prior.value
           /\ last.prior.by = "none" => last.ret = Null

\* C3 happens: a query whose scan found nothing returned the coordinate the
\* mutation watcher had installed.
C3_WatcherReadingSurvives ==
    /\ last.op = "getCurrentLocation" /\ last.note = "cached"
    /\ Scanned = Null
    /\ last.prior.by = "watcher"
    /\ last.ret # Null /\ currentLocation = last.ret

\* The first pair of the text is out of range: |lat| > 90 or |lng| > 180.
FirstPairOutOfRange(text) ==
    FirstPair(text) # Null /\ ~ValidOrNull(FirstPair(text))

\* C4: for every response body inspected by the fetch wrapper or the XHR load
\* handler, if the first pair found has |lat| > 90 or |lng| > 180, the cache
\* is left unchanged.
C4_OutOfRangePairNeverWritten ==
    [][\A r \in reqs, text \in Bodies :
           (FirstPairOutOfRange(text) /\ Inspected(r, text))
               => currentLocation' = currentLocation]_vars

\* C5: the response of an intercepted fetch is delivered to the caller as
\* soon as the original fetch resolves: no request whose original fetch has
\* resolved is held back while the wrapper reads the body.
C5_ResponseNotHeldBack == \A r \in reqs : r.pc # "await text"

\* C6: the page receives what the unwrapped primitive produced: the wrapped
\* fetch settles with the original response, its body unconsumed, or with
\* the original rejection, and the wrapped open and send return or throw
\* what the originals do.
C6_PageReceivesOriginal ==
    last.op \in {"fetch settled", "xhr.open", "xhr.send"}
        => last.ret = last.orig

\* C6 happens: a fetch settled with the original, unconsumed response after
\* the wrapper had extracted a coordinate from its body.
C6_ExtractedAndUnconsumed ==
    /\ last.op = "fetch settled" /\ last.note = "wrote"
    /\ last.ret = last.orig /\ ~last.ret.value.bodyUsed
    /\ currentLocation # Null /\ currentLocation.source = "fetch"

\* C7: when cloning or reading a response body fails inside an interceptor,
\* the failure is swallowed: the cache is left unchanged and the request
\* completes with the outcome it would have had without interception.
C7_FailsOpen ==
    [][last'.note \in {"clone failed", "read failed"}
           => /\ currentLocation' = currentLocation
              /\ last'.op = "fetch settled" => last'.ret = last'.orig]_vars

\* C7 happens: the body read of a fetch failed while the cache held a
\* coordinate, and the fetch settled with the original response.
C7_ReadFailedCacheKept ==
    /\ last.op = "fetch settled" /\ last.note = "read failed"
    /\ currentLocation # Null
    /\ last.ret = last.orig

\* The keywords of the fetch wrapper.
Keywords == {Maps, Location, Coordinates}
HasKeyword(url) == \E kw \in Keywords : Includes(url, kw)

\* The cache holds the pair `coords`, tagged as network-sourced.
HoldsNetwork(cache, coords) ==
    /\ cache # Null /\ cache.source \in NetworkSources
    /\ cache.lat = coords.lat /\ cache.lng = coords.lng

\* C8: for a request through fetch or XMLHttpRequest whose URL contains a
\* keyword, if the first pair of the response body is a valid coordinate,
\* the cache holds that coordinate, tagged as network-sourced, once the
\* response has been processed; a request whose URL contains no keyword
\* never changes the cache.
C8_KeywordRequestsStore ==
    [][\A r \in reqs :
           /\ \A text \in Bodies :
                  (/\ HasKeyword(r.url)
                   /\ FirstPair(text) # Null /\ ValidOrNull(FirstPair(text))
                   /\ Inspected(r, text))
                      => HoldsNetwork(currentLocation', FirstPair(text))
           /\ (~HasKeyword(r.url) /\ r \notin reqs')
                  => currentLocation' = currentLocation]_vars

\* C9: a call of extractFromIframe leaves the cache, the observers and the
\* map iframes of the document unchanged, whether it returns a coordinate or
\* null.
C9_ScanHasNoSideEffects ==
    [][last'.op = "extractFromIframe"
           => UNCHANGED <<currentLocation, observers, batch, iframes>>]_vars

\* C9 happens: a scan returned a coordinate and the cache is still empty,
\* with an observer connected.
C9_FoundButNotStored ==
    /\ last.op = "extractFromIframe" /\ last.ret # Null
    /\ currentLocation = Null /\ observers > 0

\* The positions of the map iframes that yield a match.
Matching(frames) ==
    {k \in 1..Len(frames) : Lookup(IframeMatchTable, frames[k]) # Null}

\* The match of the first of them.
FirstMatching(frames) ==
    Lookup(IframeMatchTable,
           frames[CHOOSE k \in Matching(frames) :
                      \A j \in Matching(frames) : k <= j])

\* C10: the scanner returns the coordinate of the first map iframe, in
\* document order, that yields a match, skipping every earlier iframe that
\* yields none or whose URL cannot be parsed, and null only when no iframe
\* yields a match.
C10_FirstMatchWins ==
    last.op = "extractFromIframe"
        => last.ret = IF Matching(iframes) = {} THEN Null
                      ELSE FirstMatching(iframes)

\* C10 happens: the first map iframe failed and the scan returned the
\* coordinate of a later one.
C10_SkippedFailingIframe ==
    /\ last.op = "extractFromIframe"
    /\ Len(iframes) >= 2
    /\ 1 \notin Matching(iframes)
    /\ last.ret # Null /\ last.ret = FirstMatching(iframes)

\* The groups of the structured pattern in the 'pb' parameter of an iframe,
\* and the pair in its 'location' parameter.
PbGroups(iframe) ==
    IF iframe.hasPb THEN StructuredMatch(iframe.pb) ELSE << >>
NamedPair(iframe) ==
    IF iframe.hasLocation THEN parseCoordinates(iframe.location) ELSE Null

\* What C11 says of the result of a scan whose first iframe has these.
StructuredBeforeNamed(ret, groups, named) ==
    /\ groups # << >>
           => /\ ret.source = "iframe-pb"
              /\ ret.lat = ParseFloat(groups[1])
              /\ ret.lng = ParseFloat(groups[2])
    /\ (groups = << >> /\ named # Null)
           => ret = WithSource(named, "iframe-location")

\* C11: within one map iframe the structured 'pb' pattern is tried before
\* the 'location' parameter: when both match, the result is the structured
\* match, tagged iframe-pb; when 'pb' is present and does not match, the
\* result is the pair of the 'location' parameter of the same iframe.
C11_StructuredBeforeNamed ==
    (last.op = "extractFromIframe" /\ iframes # << >> /\ iframes[1].parses)
        => StructuredBeforeNamed(last.ret, PbGroups(iframes[1]),
                                 NamedPair(iframes[1]))

\* C11 happens: the first iframe matched in both parameters and the scan
\* returned its structured match.
C11_BothMatchStructuredWins ==
    /\ last.op = "extractFromIframe"
    /\ iframes # << >> /\ iframes[1].parses
    /\ PbGroups(iframes[1]) # << >> /\ NamedPair(iframes[1]) # Null
    /\ last.ret # Null /\ last.ret.source = "iframe-pb"

\* C12: on every batch delivered to the mutation watcher, if some inserted
\* node is or contains a map iframe and the scan succeeds, the cache
\* afterwards holds the scan result, whatever it held before; otherwise the
\* batch leaves the cache unchanged.
C12_WatcherWritesScan ==
    [][last'.op = "mutationCallback"
           => IF (\E node \in batch : node # "other") /\ Scanned # Null
              THEN currentLocation' = Scanned
              ELSE currentLocation' = currentLocation]_vars

\* C12 happens: a callback overwrote a different cached coordinate with the
\* scan result.
C12_WatcherOverwrote ==
    /\ last.op = "mutationCallback" /\ last.note = "wrote"
    /\ last.cache # Null /\ last.cache # currentLocation
    /\ currentLocation = Scanned

\* C13: after any sequence of start-up events at most one mutation watcher
\* is subscribed, and one is subscribed only once the document body exists.
C13_AtMostOneWatcher == observers <= 1 /\ (observers > 0 => body)

\* C14: after teardown no mutation watcher remains subscribed: a step that
\* follows LocationExtractor.cleanup, other than a new call of initialize,
\* leaves none subscribed (so no insertion can write the cache through one).
C14_NoWatcherAfterTeardown ==
    [][(last.op = "cleanup" /\ last'.op # "initialize")
           => observers' = 0]_vars

\* C15: teardown does not un-wrap the network primitives: cleanup leaves the
\* wrappers installed and the requests in flight as they are, and once
\* installed the wrappers stay.
C15_TeardownKeepsWrappers ==
    [][/\ last'.op = "cleanup" => (wrapped' = wrapped /\ reqs' = reqs)
       /\ wrapped => wrapped']_vars

\* C15 happens: after a teardown that disconnected the watcher of an
\* initialized engine, a response was inspected and written to the cache.
C15_WroteAfterTeardown ==
    /\ isInitialized /\ observers = 0 /\ listeners = 0
    /\ wrapped
    /\ last.op \in {"fetch settled", "xhr load"} /\ last.note = "wrote"
    /\ currentLocation # Null /\ currentLocation.source \in NetworkSources

\* C16: of two calls of getCurrentLocation in succession, with no step of
\* the page, of an interceptor or of the watcher between them, the second
\* returns the same lat, lng and source as the first and leaves the cache
\* as the first left it.
C16_QueryIdempotent ==
    [][(last.op = "getCurrentLocation" /\ last'.op = "getCurrentLocation")
           => (last'.ret = last.ret /\ currentLocation' = currentLocation)]_vars

\* C16 happens: a query that directly followed another query returned the
\* scanned coordinate again.
C16_QueriedTwice ==
    /\ last.op = "getCurrentLocation" /\ last.again
    /\ last.note = "scan"
    /\ last.ret # Null /\ last.ret = last.cache /\ currentLocation = last.ret

\* C17: every cache write replaces the whole record by the record of one
\* reading: whenever a callback or a query can run, the cache is null or
\* holds lat, lng and source all of one single reading, and so does what
\* getCurrentLocation returns.
C17_CacheHoldsOneReading ==
    /\ currentLocation = Null \/ currentLocation \in Readings
    /\ last.op = "getCurrentLocation"
           => (last.ret = Null \/ last.ret \in Readings)

\* C17 happens: the fetch wrapper replaced a coordinate scanned from an
\* iframe by the record of its own reading.
C17_ReplacedByFetch ==
    /\ last.op = "fetch settled" /\ last.note = "wrote"
    /\ last.cache # Null /\ last.cache.source = "iframe-pb"
    /\ currentLocation \in Readings /\ currentLocation.source = "fetch"

Failing(iframe) == Lookup(IframeBodyTable, iframe) \in {Threw, Null}

\* C19: neither extractFromIframe nor getCurrentLocation lets an exception
\* reach its caller, whatever the document holds; when every iframe fails
\* the scan returns null and the query returns the cached value (or null).
C19_NeverRaises ==
    last.op \in {"extractFromIframe", "getCurrentLocation"}
        => /\ last.ret # Threw
           /\ (\A k \in 1..Len(iframes) : Failing(iframes[k]))
                  => last.ret = IF last.op = "getCurrentLocation"
                                THEN last.cache ELSE Null

\* C19 happens: a query over a document with an unparseable iframe and a
\* malformed one returned the cached coordinate.
C19_QueryOverBrokenIframes ==
    /\ last.op = "getCurrentLocation"
    /\ \E k \in 1..Len(iframes) : ~iframes[k].parses
    /\ \E k \in 1..Len(iframes) : iframes[k] = SrcMalformed
    /\ last.cache # Null /\ last.ret = last.cache

\* The leftmost substring of the text that the pair pattern matches, << >>
\* when there is none.
LeftmostPair(text) ==
    LET starts == {i \in 1..Len(text) : PairEnd(text, i) # 0}
    IN  IF starts = {} THEN << >>
        ELSE LET i == CHOOSE j \in starts : \A k \in starts : j <= k
             IN  Sub(text, i, PairEnd(text, i))

LeftmostOf(pair) == IF pair = << >> THEN Null ELSE parseCoordinates(pair)

LeftmostTable == {<<text, LeftmostOf(LeftmostPair(text))>> : text \in Bodies}

\* The handler that ran as `op` rejects the pair.
RejectedBy(op, coords) ==
    IF op = "fetch settled" THEN FetchAccepts(coords) = Null
    ELSE XhrAccepts(coords) = Null

\* What C20 asks of a handler that has matched a text whose leftmost pair
\* is coords, the cache going from `before` to `after`.
OnlyLeftmost(op, coords, before, after) ==
    IF coords = Null THEN after = before
    ELSE IF ValidOrNull(coords) THEN HoldsNetwork(after, coords)
    ELSE RejectedBy(op, coords) => after = before

\* C20: a handler that has matched a response text looks at the leftmost
\* pair only: if that pair is a valid coordinate the cache holds it
\* afterwards, and if the handler rejects it the cache is left unchanged,
\* whatever pairs follow it in the text.
C20_OnlyLeftmostPair ==
    [][(last'.op \in {"fetch settled", "xhr load"}
            /\ last'.note \in {"wrote", "no write"})
           => OnlyLeftmost(last'.op, Lookup(LeftmostTable, last'.text),
                           currentLocation, currentLocation')]_vars

\* C20 happens: a handler matched a text whose leftmost pair is out of
\* range and whose second pair is a valid coordinate, and wrote nothing.
C20_LaterValidPairIgnored ==
    /\ last.op \in {"fetch settled", "xhr load"} /\ last.note = "no write"
    /\ last.text = BodyOutThenValid
    /\ Len(PairMatches(last.text)) = 2
    /\ ~ValidOrNull(Lookup(LeftmostTable, last.text))
    /\ ValidOrNull(parseCoordinates(PairMatches(last.text)[2]))
    /\ currentLocation = last.cache

\* C21: each matcher, given the text that encodes a valid pair in the
\* matcher's own format, returns exactly that pair; the structured matcher
\* tags it as read from 'pb'.
C21_RoundTrip ==
    (last.op = "match" /\ last.orig # Null)
        => /\ last.ret \notin {Null, Threw}
           /\ last.ret.lat = last.orig.lat /\ last.ret.lng = last.orig.lng
           /\ last.note = "structured" => last.ret.source = "iframe-pb"

\* The whole of the trimmed text is a decimal literal.
NumericEnd(t, i, ie) ==
    IF ie <= Len(t) /\ t[ie] = "." /\ DigitRunEnd(t, ie + 1) > ie + 1
    THEN DigitRunEnd(t, ie + 1)
    ELSE IF ie > i THEN ie ELSE 0

IsNumericText(t) ==
    NumericEnd(t, OptMinus(t, 1), DigitRunEnd(t, OptMinus(t, 1)))
        = Len(t) + 1

TwoNumericParts(parts) ==
    Len(parts) = 2 /\ \A k \in 1..Len(parts) : IsNumericText(Trim(parts[k]))

\* C22: the named-parameter matcher returns a pair exactly when the value
\* of 'location' consists of two comma-separated parts that are both
\* numeric; a non-numeric part, a numeric prefix followed by other
\* characters, a missing part or a third part gives no match.
C22_NamedNeedsTwoNumbers ==
    (last.op = "match" /\ last.note = "named")
        => (last.ret # Null <=> TwoNumericParts(SplitComma(last.text)))

\* The tags of the three source classes: primary passive, secondary
\* passive, network.
SourceClasses ==
    {{"iframe-pb"}, {"iframe-location"}, NetworkSources}

\* The record carries a tag of exactly one source class and the time of the
\* observation.
TaggedAndTimed(c) ==
    /\ "source" \in DOMAIN c
    /\ Cardinality({class \in SourceClasses : c.source \in class}) = 1
    /\ "timestamp" \in DOMAIN c

\* C23: every coordinate record in the cache or returned by
\* getCurrentLocation carries a provenance tag of exactly one of the three
\* source classes and an observation timestamp.
C23_TaggedAndTimestamped ==
    /\ currentLocation # Null => TaggedAndTimed(currentLocation)
    /\ (last.op = "getCurrentLocation" /\ last.ret # Null)
           => TaggedAndTimed(last.ret)

\* C24: once the cache holds a coordinate no operation sets it back to
\* null, and every later getCurrentLocation returns a coordinate.
C24_NeverExpires ==
    [][currentLocation # Null
           => /\ currentLocation' # Null
              /\ last'.op = "getCurrentLocation" => last'.ret # Null]_vars

\* C24 happens: after the teardown and with no map iframe left in the
\* document, a query returned the coordinate cached earlier.
C24_SurvivedTeardown ==
    /\ last.op = "getCurrentLocation" /\ last.note = "cached"
    /\ isInitialized /\ observers = 0 /\ iframes = << >>
    /\ last.ret # Null /\ currentLocation = last.ret

\* C28: LocationExtractor.initialize runs at most once: App.initialize never
\* gets past its guard when fetch and XMLHttpRequest are wrapped already,
\* also after an earlier App.initialize has failed.
C28_WrappedAtMostOnce == [][last'.op = "initialize" => ~wrapped]_vars

\* The history without its entry at position k.
Without(entries, k) ==
    SubSeq(entries, 1, k - 1) \o SubSeq(entries, k + 1, Len(entries))

\* Two records have the same lat and the same lng, as the script compares
\* numbers: NaN is not the same as anything.
SamePair(a, b) ==
    /\ a.lat.t = "num" /\ a.lng.t = "num"
    /\ a.lat = b.lat /\ a.lng = b.lng

Known(entries, location) ==
    {k \in 1..Len(entries) : SamePair(entries[k], location)}

\* C25: the stored history never holds more than MAX_HISTORY entries, and
\* adding a location it does not hold to a full history drops the oldest
\* entry, the last one.
C25_HistoryBounded ==
    [][/\ Len(history') <= MAX_HISTORY
       /\ \A location \in Readings :
              (/\ AddLocation(location)
               /\ Len(history) = MAX_HISTORY
               /\ Known(history, location) = {})
                  => history' = << Entry(location, now) >>
                                    \o SubSeq(history, 1, MAX_HISTORY - 1)]_vars

\* C25 happens: a location was added to a full history that did not hold
\* it, and the history is still full.
C25_OldestDropped ==
    /\ last.op = "addLocationToHistory" /\ last.note = "dropped oldest"
    /\ Len(history) = MAX_HISTORY
    /\ Known(SubSeq(history, 2, Len(history)), history[1]) = {}

\* No two entries of the history have the same lat and lng.
NoDuplicates(entries) ==
    \A j, k \in 1..Len(entries) :
        SamePair(entries[j], entries[k]) => j = k

C26_ToggleParity ==
    (isInitialized /\ \A k \in 1..Len(timers) : timers[k] = "initial check")
        => /\ (display = "flex") <=> presses
           /\ visible <=> (display = "flex")

\* What getCurrentLocation returns in the state as it is.
Queried == IF Scanned # Null THEN Scanned ELSE currentLocation

\* The location differs in lat or lng from the one the application holds.
Differs(location, current) == current = Null \/ ~SamePair(location, current)

\* C27: a poller tick that obtains a location notifies exactly when its lat
\* or lng differs from App.currentLocation: a notifying tick sets the map
\* and App.currentLocation to the location and puts it first in the
\* history, and a tick with the same lat and lng changes none of them.
C27_NotifiesOnChangeOnly ==
    [][(last'.op = "tick" /\ last'.note # "skipped" /\ Queried # Null)
           => IF Differs(Queried, appCurrentLocation)
              THEN /\ appCurrentLocation' = Queried
                   /\ mapShown' = Queried
                   /\ Len(history') >= 1
                   /\ history'[1] = Entry(Queried, now)
              ELSE UNCHANGED <<appCurrentLocation, mapShown, history>>]_vars

\* C27 happens: a tick found the location changed from the one the
\* application held, and the map, the application and the history follow.
C27_SecondNotification ==
    /\ last.op = "tick" /\ last.note = "notified"
    /\ Len(history) >= 2
    /\ mapShown = appCurrentLocation
    /\ SamePair(history[1], appCurrentLocation)

\* C29: every location that becomes App.currentLocation with a lat or lng
\* different from the one held before is added to the history, whichever
\* path sets it.
C29_EveryChangeInHistory ==
    [][(appCurrentLocation' # Null
            /\ Differs(appCurrentLocation', appCurrentLocation))
           => /\ Len(history') >= 1
              /\ history'[1].lat = appCurrentLocation'.lat
              /\ history'[1].lng = appCurrentLocation'.lng]_vars

====
